---- MODULE Spec2Model ----
(***************************************************************************)
(* A model of Bot.py: the /signals handler of a Telegram bot that fetches  *)
(* candles with retries, computes MACD / RSI / EMA indicators, derives buy *)
(* and sell signals and replies with a text summary and a chart.           *)
(*                                                                         *)
(* Four specifications share the module:                                   *)
(*   Spec        the /signals handler run by concurrent invocations        *)
(*   SpecFetch   one call of fetch_data_with_retry(retries, delay)         *)
(*   SpecRows    generate_signals applied to one row of indicator values   *)
(*   SpecSeries  calculate_indicators and generate_signals on a series     *)
(*                                                                         *)
(* The code computes in IEEE doubles; the model computes the same          *)
(* expressions in exact rational arithmetic, NaN included.                 *)
(***************************************************************************)
EXTENDS Integers, Sequences, FiniteSets, TLC

VARIABLES
  pc,        \* handler: each invocation's position in signals()
  running,   \* handler: the invocation the event loop is executing, or None
  df,        \* handler: each invocation's local data frame (the window it fetched)
  frame,     \* the activation of fetch_data_with_retry (one at a time: it is synchronous)
  gcf,       \* pyplot's current figure (module-global state of matplotlib.pyplot)
  plotFile,  \* the content of the file 'signals_plot.png'
  msg,       \* handler: the text each invocation passed to reply_text at line 142
  photo,     \* handler: the chart each invocation passed to reply_photo
  sent,      \* handler: the messages the user received from each invocation
  cause,     \* handler: the kind of exception each invocation caught
  inflight,  \* which invocations were in flight together, and which wrote a global
  row,       \* SpecRows: the indicator row handed to generate_signals
  sig,       \* SpecRows: the row generate_signals produced
  closes,    \* SpecSeries: the close column of the fetched frame
  table,     \* SpecSeries: the frame's indicator columns, the rows computed so far
  roll,      \* SpecSeries: the running values of the ewm passes
  signals,   \* SpecSeries: the columns generate_signals added
  stage      \* SpecSeries: how far the pipeline has run

vars == <<pc, running, df, frame, gcf, plotFile, msg, photo, sent, cause, inflight,
          row, sig, closes, table, roll, signals, stage>>

\* Python's None, and a value that is not None
None == <<>>
Some(x) == <<x>>

NoCause == "none"

(***************************************************************************)
(* Exact arithmetic.  A natural number is a little-endian sequence of      *)
(* limbs in base Base without a leading zero limb; an integer adds a sign. *)
(***************************************************************************)
Base == 100 * 100

Limb(a, i) == IF i <= Len(a) THEN a[i] ELSE 0

RECURSIVE Strip(_)
Strip(a) == IF a = <<>> THEN a
            ELSE IF a[Len(a)] = 0 THEN Strip(SubSeq(a, 1, Len(a) - 1)) ELSE a

RECURSIVE NatAddFrom(_, _, _, _, _)
NatAddFrom(a, b, i, carry, acc) ==
  IF i > Len(a) /\ i > Len(b)
  THEN IF carry = 0 THEN acc ELSE Append(acc, carry)
  ELSE LET s == Limb(a, i) + Limb(b, i) + carry
       IN  NatAddFrom(a, b, i + 1, s \div Base, Append(acc, s % Base))

NatAdd(a, b) == NatAddFrom(a, b, 1, 0, <<>>)

\* a - b for a >= b
RECURSIVE NatSubFrom(_, _, _, _, _)
NatSubFrom(a, b, i, borrow, acc) ==
  IF i > Len(a)
  THEN Strip(acc)
  ELSE LET s == a[i] - Limb(b, i) - borrow
       IN  IF s < 0 THEN NatSubFrom(a, b, i + 1, 1, Append(acc, s + Base))
           ELSE NatSubFrom(a, b, i + 1, 0, Append(acc, s))

NatSub(a, b) == NatSubFrom(a, b, 1, 0, <<>>)

RECURSIVE NatCmpFrom(_, _, _)
NatCmpFrom(a, b, i) ==
  IF i = 0 THEN 0
  ELSE IF a[i] > b[i] THEN 1
  ELSE IF a[i] < b[i] THEN -1
  ELSE NatCmpFrom(a, b, i - 1)

NatCmp(a, b) ==
  IF Len(a) > Len(b) THEN 1
  ELSE IF Len(a) < Len(b) THEN -1
  ELSE NatCmpFrom(a, b, Len(a))

\* a * k for a small k (k * Base fits the machine word)
RECURSIVE NatMulSmallFrom(_, _, _, _, _)
NatMulSmallFrom(a, k, i, carry, acc) ==
  IF i > Len(a)
  THEN IF carry = 0 THEN acc
       ELSE IF carry < Base THEN Append(acc, carry)
       ELSE acc \o <<carry % Base, carry \div Base>>
  ELSE LET s == a[i] * k + carry
       IN  NatMulSmallFrom(a, k, i + 1, s \div Base, Append(acc, s % Base))

NatMulSmall(a, k) ==
  IF k = 0 \/ a = <<>> THEN <<>>
  ELSE IF k = 1 THEN a
  ELSE NatMulSmallFrom(a, k, 1, 0, <<>>)

RECURSIVE NatMulFrom(_, _, _, _)
NatMulFrom(a, b, i, acc) ==
  IF i = 0 THEN acc
  ELSE LET shifted == IF acc = <<>> THEN <<>> ELSE <<0>> \o acc
       IN  NatMulFrom(a, b, i - 1, NatAdd(NatMulSmall(a, b[i]), shifted))

NatMul(a, b) ==
  IF a = <<>> \/ b = <<>> THEN <<>>
  ELSE IF a = <<1>> THEN b
  ELSE IF b = <<1>> THEN a
  ELSE IF Len(b) = 1 THEN NatMulSmall(a, b[1])
  ELSE IF Len(a) = 1 THEN NatMulSmall(b, a[1])
  ELSE NatMulFrom(a, b, Len(b), <<>>)

NatOfInt(k) == IF k = 0 THEN <<>>
               ELSE IF k < Base THEN <<k>>
               ELSE <<k % Base, k \div Base>>

\* Signed integers: [neg, mag], zero is never negative.
MkInt(neg, mag) == [neg |-> neg /\ mag # <<>>, mag |-> mag]

IntOf(k) == IF k < 0 THEN MkInt(TRUE, NatOfInt(-k)) ELSE MkInt(FALSE, NatOfInt(k))

IntNeg(a) == MkInt(~a.neg, a.mag)

IntAdd(a, b) ==
  IF a.neg = b.neg THEN MkInt(a.neg, NatAdd(a.mag, b.mag))
  ELSE LET c == NatCmp(a.mag, b.mag)
       IN  IF c = 0 THEN MkInt(FALSE, <<>>)
           ELSE IF c > 0 THEN MkInt(a.neg, NatSub(a.mag, b.mag))
           ELSE MkInt(b.neg, NatSub(b.mag, a.mag))

IntMulNat(a, m) == MkInt(a.neg, NatMul(a.mag, m))

IntMul(a, b) == MkInt(a.neg # b.neg, NatMul(a.mag, b.mag))

IntSign(a) == IF a.mag = <<>> THEN 0 ELSE IF a.neg THEN -1 ELSE 1

(***************************************************************************)
(* A number is NaN or the rational  n / (q * 2^e[1] * 3^e[2] * 5^e[3] *    *)
(* 7^e[4] * 13^e[5]):  the smoothing factors 2/(span+1) and 1/window of    *)
(* the indicators have denominators made of these primes, q holds any      *)
(* other divisor (RSI divides by an average).                              *)
(***************************************************************************)
Primes == <<2, 3, 5, 7, 13>>

\* the largest power of each prime that multiplies a limb within the word
Chunk == <<17, 11, 7, 6, 4>>

NoExp == <<0, 0, 0, 0, 0>>

RECURSIVE Pow(_, _)
Pow(p, k) == IF k = 0 THEN 1 ELSE p * Pow(p, k - 1)

RECURSIVE NatMulPow(_, _, _)
NatMulPow(a, j, k) ==
  IF k = 0 \/ a = <<>> THEN a
  ELSE LET c == IF k > Chunk[j] THEN Chunk[j] ELSE k
       IN  NatMulPow(NatMulSmall(a, Pow(Primes[j], c)), j, k - c)

\* a * Primes^d for a tuple d of exponents
NatScale(a, d) ==
  NatMulPow(NatMulPow(NatMulPow(NatMulPow(NatMulPow(a, 1, d[1]), 2, d[2]), 3, d[3]), 4, d[4]), 5, d[5])

Max(x, y) == IF x >= y THEN x ELSE y

ExpMax(d, e) == [j \in 1..5 |-> Max(d[j], e[j])]
ExpSum(d, e) == [j \in 1..5 |-> d[j] + e[j]]
ExpMonus(d, e) == [j \in 1..5 |-> Max(d[j] - e[j], 0)]

NaN == [nan |-> TRUE, n |-> IntOf(0), q |-> <<1>>, e |-> NoExp]

Rat(n, q, e) == [nan |-> FALSE, n |-> n, q |-> q, e |-> e]

\* the integer k, and the fraction k / Primes^e
Num(k) == Rat(IntOf(k), <<1>>, NoExp)
Frac(k, e) == Rat(IntOf(k), <<1>>, e)

IsNaN(a) == a.nan

RatAdd(a, b) ==
  LET L  == ExpMax(a.e, b.e)
      an == MkInt(a.n.neg, NatScale(a.n.mag, ExpMonus(L, a.e)))
      bn == MkInt(b.n.neg, NatScale(b.n.mag, ExpMonus(L, b.e)))
  IN  IF a.q = b.q
      THEN Rat(IntAdd(an, bn), a.q, L)
      ELSE Rat(IntAdd(IntMulNat(an, b.q), IntMulNat(bn, a.q)), NatMul(a.q, b.q), L)

RatNeg(a) == Rat(IntNeg(a.n), a.q, a.e)

RatMul(a, b) == Rat(IntMul(a.n, b.n), NatMul(a.q, b.q), ExpSum(a.e, b.e))

\* a / b for b # 0
RatDiv(a, b) ==
  Rat(MkInt(a.n.neg # b.n.neg,
            NatScale(NatMul(a.n.mag, b.q), ExpMonus(b.e, a.e))),
      NatMul(a.q, b.n.mag),
      ExpMonus(a.e, b.e))

\* the sign of a - b
RatCmp(a, b) == IntSign(RatAdd(a, RatNeg(b)).n)

\* float arithmetic: NaN propagates
Add(a, b) == IF IsNaN(a) \/ IsNaN(b) THEN NaN ELSE RatAdd(a, b)
Sub(a, b) == IF IsNaN(a) \/ IsNaN(b) THEN NaN ELSE RatAdd(a, RatNeg(b))
Mul(a, b) == IF IsNaN(a) \/ IsNaN(b) THEN NaN ELSE RatMul(a, b)

\* float comparisons: every comparison with NaN is False
\* a comparison that would take a NaN operand for a large value; C7 is
\* expected to fail against it
GtNaNTrue(a, b) == IsNaN(a) \/ IsNaN(b) \/ RatCmp(a, b) > 0

Gt(a, b) == IF IsNaN(a) \/ IsNaN(b) THEN FALSE ELSE RatCmp(a, b) > 0
Lt(a, b) == IF IsNaN(a) \/ IsNaN(b) THEN FALSE ELSE RatCmp(a, b) < 0
Eq(a, b) == IF IsNaN(a) \/ IsNaN(b) THEN FALSE ELSE RatCmp(a, b) = 0

\* bool.astype(int)
AsInt(b) == IF b THEN Num(1) ELSE Num(0)

(***************************************************************************)
(* pandas and ta, as calculate_indicators uses them.  A column is a        *)
(* sequence; index i of the code is position i + 1.                        *)
(***************************************************************************)
RECURSIVE ExpOf(_, _)
ExpOf(m, p) == IF m % p = 0 THEN 1 + ExpOf(m \div p, p) ELSE 0

\* k / m for an m made of the primes of Primes
SmallFrac(k, m) == Frac(k, [j \in 1..5 |-> ExpOf(m, Primes[j])])

\* Series.ewm(alpha, min_periods, adjust=False).mean(), one row of its pass
\* over the column: the running value starts at the first number of the column,
\* then weighted = (1 - alpha) * weighted + alpha * cur, and the output is NaN
\* until min_periods numbers were seen.  (No column of the frame has a NaN after
\* its first number, so pandas' old_wt is 1 at every update.)
EwmStart == [weighted |-> NaN, nobs |-> 0, out |-> NaN]

EwmStep(st, cur, alpha, minp) ==
  LET obs == ~IsNaN(cur)
      n2  == IF obs THEN st.nobs + 1 ELSE st.nobs
      w2  == IF IsNaN(st.weighted) THEN cur
             ELSE IF obs
                  THEN Add(Mul(Sub(Num(1), alpha), st.weighted), Mul(alpha, cur))
                  ELSE st.weighted
  IN  [weighted |-> w2, nobs |-> n2, out |-> IF n2 >= minp THEN w2 ELSE NaN]

\* ta.utils._ema(series, periods): ewm(span=periods, min_periods=periods)
EmaStep(st, cur, periods) == EwmStep(st, cur, SmallFrac(2, periods + 1), periods)

\* ta's defaults: MACD(window_slow=26, window_fast=12, window_sign=9), RSIIndicator(window=14)
WindowSlow == 26
WindowFast == 12
WindowSign == 9
RsiWindow == 14
\* the windows calculate_indicators passes to EMAIndicator
EmaShortWindow == 3
EmaLongWindow == 6

\* RSIIndicator.rsi(): np.where(emadn == 0, 100, 100 - (100 / (1 + emaup / emadn)))
RsiOf(emaup, emadn) ==
  IF IsNaN(emadn) \/ IsNaN(emaup) THEN NaN
  ELSE IF Eq(emadn, Num(0)) THEN Num(100)
  ELSE Sub(Num(100), RatDiv(Num(100), Add(Num(1), RatDiv(emaup, emadn))))

\* the running values of the seven ewm passes calculate_indicators makes
RollStart ==
  [emafast |-> EwmStart, emaslow |-> EwmStart, sign |-> EwmStart,
   emaup |-> EwmStart, emadn |-> EwmStart,
   ema_short |-> EwmStart, ema_long |-> EwmStart]

\* calculate_indicators(df) at one row: close is the row's close, prev the close
\* of the row before (NaN at the first row: close.diff(1))
RollStep(r, close, prev) ==
  LET emafast == EmaStep(r.emafast, close, WindowFast)
      emaslow == EmaStep(r.emaslow, close, WindowSlow)
      macd    == Sub(emafast.out, emaslow.out)
      diff    == Sub(close, prev)
      up      == IF Gt(diff, Num(0)) THEN diff ELSE Num(0)
      down    == IF Lt(diff, Num(0)) THEN RatNeg(diff) ELSE Num(0)
  IN  [emafast |-> emafast, emaslow |-> emaslow,
       sign |-> EmaStep(r.sign, macd, WindowSign),
       emaup |-> EwmStep(r.emaup, up, SmallFrac(1, RsiWindow), RsiWindow),
       emadn |-> EwmStep(r.emadn, down, SmallFrac(1, RsiWindow), RsiWindow),
       ema_short |-> EmaStep(r.ema_short, close, EmaShortWindow),
       ema_long |-> EmaStep(r.ema_long, close, EmaLongWindow)]

\* the indicator columns of the row, and the shifted close generate_signals reads
IndicatorRow(r, close, prev) ==
  LET macd == Sub(r.emafast.out, r.emaslow.out)
  IN  [close |-> close, prev |-> prev,
       macd |-> macd, signal |-> r.sign.out,
       macd_histogram |-> Sub(macd, r.sign.out),
       rsi |-> RsiOf(r.emaup.out, r.emadn.out),
       ema_short |-> r.ema_short.out, ema_long |-> r.ema_long.out]

(***************************************************************************)
(* generate_signals(df), row by row: every column it adds is computed from *)
(* the same row of the frame (close.shift(1) is the row's prev).           *)
(***************************************************************************)
macd_crossover(r) == Gt(r.macd, r.signal)
macd_crossunder(r) == Lt(r.macd, r.signal)

rsi_rising(r) == Gt(r.rsi, Num(40))
rsi_falling(r) == Lt(r.rsi, Num(60))

\* a non-strict comparison of the closes; C8 is expected to fail against it
price_not_decreasing(r) == ~Lt(r.close, r.prev)

price_increasing(r) == Gt(r.close, r.prev)
price_decreasing(r) == Lt(r.close, r.prev)

\* the EMAs taken in the other order; C9 is expected to fail against it
ema_long_over_short(r) == Gt(r.ema_long, r.ema_short)

ema_crossover(r) == Gt(r.ema_short, r.ema_long)
ema_crossunder(r) == Lt(r.ema_short, r.ema_long)

raw_buy_signal(r) ==
  (macd_crossover(r) \/ price_increasing(r) \/ ema_crossover(r)) /\ rsi_rising(r)

raw_sell_signal(r) ==
  (macd_crossunder(r) \/ price_decreasing(r) \/ ema_crossunder(r)) /\ rsi_falling(r)

\* the literal 0.1
Tenth == SmallFrac(1, 10)

buy_score(r) ==
  Add(Add(Mul(AsInt(Gt(r.macd_histogram, Num(0))), Num(2)),
          Mul(Sub(r.rsi, Num(50)), Tenth)),
      AsInt(Gt(r.ema_short, r.ema_long)))

sell_score(r) ==
  Add(Add(Mul(AsInt(Lt(r.macd_histogram, Num(0))), Num(2)),
          Mul(Sub(Num(50), r.rsi), Tenth)),
      AsInt(Lt(r.ema_short, r.ema_long)))

\* the raw signal with no score comparison; C1 is expected to fail against it
buy_signal_unresolved(r, buy, sell) == raw_buy_signal(r)

\* a non-strict score comparison; C2 is expected to fail against it
sell_signal_on_tie(r, buy, sell) == raw_sell_signal(r) /\ ~Lt(sell, buy)

buy_signal(r, buy, sell) == raw_buy_signal(r) /\ Gt(buy, sell)

sell_signal(r, buy, sell) == raw_sell_signal(r) /\ Gt(sell, buy)

SignalRow(r) ==
  LET buy  == buy_score(r)
      sell == sell_score(r)
  IN  [macd_crossover |-> macd_crossover(r), macd_crossunder |-> macd_crossunder(r),
       rsi_rising |-> rsi_rising(r), rsi_falling |-> rsi_falling(r),
       price_increasing |-> price_increasing(r),
       price_decreasing |-> price_decreasing(r),
       ema_crossover |-> ema_crossover(r), ema_crossunder |-> ema_crossunder(r),
       raw_buy_signal |-> raw_buy_signal(r), raw_sell_signal |-> raw_sell_signal(r),
       buy_score |-> buy, sell_score |-> sell,
       buy_signal |-> buy_signal(r, buy, sell),
       sell_signal |-> sell_signal(r, buy, sell)]

generate_signals(t) == [i \in 1..Len(t) |-> SignalRow(t[i])] \o <<>>

(***************************************************************************)
(* SpecSeries: calculate_indicators and generate_signals on one series of  *)
(* closes.  calculate_indicators advances row by row (each ewm pass of     *)
(* pandas is one pass over the rows, and a row depends on earlier rows     *)
(* only); generate_signals then adds its columns to the whole frame.       *)
(***************************************************************************)
HandlerIdle ==
  /\ pc = <<>> /\ running = None /\ df = <<>> /\ frame = None
  /\ gcf = None /\ plotFile = None /\ msg = <<>> /\ photo = <<>> /\ sent = <<>>
  /\ cause = <<>> /\ inflight = {}

handlerVars == <<pc, running, df, frame, gcf, plotFile, msg, photo, sent, cause, inflight>>
rowVars == <<row, sig>>
seriesVars == <<closes, table, roll, signals, stage>>

CalculateIndicatorsRow ==
  /\ stage = "indicators"
  /\ Len(table) < Len(closes)
  /\ LET i     == Len(table) + 1
         close == Num(closes[i])
         prev  == IF i = 1 THEN NaN ELSE Num(closes[i - 1])
         r2    == RollStep(roll, close, prev)
     IN  /\ roll' = r2
         /\ table' = Append(table, IndicatorRow(r2, close, prev))
  /\ UNCHANGED <<closes, signals, stage>>
  /\ UNCHANGED <<handlerVars, rowVars>>

GenerateSignals ==
  /\ stage = "indicators"
  /\ Len(table) = Len(closes)
  /\ signals' = generate_signals(table)
  /\ stage' = "signals"
  /\ UNCHANGED <<closes, table, roll>>
  /\ UNCHANGED <<handlerVars, rowVars>>

\* The series the model draws: closes that start at StartPrice and move by one
\* step until row k, by another at row k + 1 and by a third after it.
StartPrice == 200
MaxStep == 2
MaxLen == 35

Steps == (0 - MaxStep)..MaxStep

\* lengths on each side of the warm-ups of the indicators
Lengths == {1, EmaLongWindow, RsiWindow, MaxLen}

\* the rows at which a series changes its step
Switches == {0, RsiWindow - 1, WindowSlow - 2}

RECURSIVE SeriesFrom(_, _, _, _, _, _)
SeriesFrom(acc, N, k, d0, d1, d2) ==
  IF Len(acc) >= N THEN acc
  ELSE LET j == Len(acc)
           d == IF j <= k THEN d0 ELSE IF j = k + 1 THEN d1 ELSE d2
       IN  SeriesFrom(Append(acc, acc[j] + d), N, k, d0, d1, d2)

SeriesOf(N, k, d0, d1, d2) == SeriesFrom(<<StartPrice>>, N, k, d0, d1, d2)

\* a flat series that ends in one fall and one rise (or one rise and one
\* fall): both raw signals are true at its last row, the first that has an
\* RSI.  Equal steps leave RSI at 50 and the scores apart; the steps 126 and
\* 143 leave RSI at exactly 55 (or 45) and the scores equal.
SpikeSteps ==
  {<<0 - 1, 1>>, <<1, 0 - 1>>, <<0 - 9 * 14, 11 * 13>>, <<9 * 14, 0 - 11 * 13>>}

SeriesInputs ==
  {SeriesOf(N, k, d0, d, d) : N \in Lengths, k \in Switches, d0 \in Steps, d \in Steps}
  \cup {SeriesOf(RsiWindow, RsiWindow - 3, 0, sp[1], sp[2]) : sp \in SpikeSteps}

RowsIdle == row = None /\ sig = None

InitSeries ==
  /\ HandlerIdle /\ RowsIdle
  /\ closes \in SeriesInputs
  /\ table = <<>>
  /\ roll = RollStart
  /\ signals = <<>>
  /\ stage = "indicators"

NextSeries == CalculateIndicatorsRow \/ GenerateSignals

SpecSeries == InitSeries /\ [][NextSeries]_vars

Rows == 1..Len(signals)

\* C2: at every index where buy_score equals sell_score neither buy_signal nor
\* sell_signal is true, whatever the raw signals are; and where the scores
\* differ and both raw signals are true, exactly the side with the strictly
\* larger score is true.
C2_TieThenNeitherElseLarger ==
  \A i \in Rows :
    LET s == signals[i]
    IN  /\ Eq(s.buy_score, s.sell_score) => ~s.buy_signal /\ ~s.sell_signal
        /\ (s.raw_buy_signal /\ s.raw_sell_signal /\ ~Eq(s.buy_score, s.sell_score))
             => /\ s.buy_signal = Gt(s.buy_score, s.sell_score)
                /\ s.sell_signal = Gt(s.sell_score, s.buy_score)
                /\ s.buy_signal # s.sell_signal

\* generate_signals has met an exact tie of the scores at a row where both raw
\* signals are true
C2_TieWithBothRaw ==
  \E i \in Rows :
    /\ signals[i].raw_buy_signal /\ signals[i].raw_sell_signal
    /\ Eq(signals[i].buy_score, signals[i].sell_score)

\* C7: each crossover and RSI flag is false where one of its indicator
\* operands is NaN, both price flags are false at the first row, and neither
\* buy_signal nor sell_signal is true where rsi is NaN.
C7_NoValueComparesFalse ==
  \A i \in Rows :
    LET r == table[i]
        s == signals[i]
    IN  /\ (IsNaN(r.macd) \/ IsNaN(r.signal)) => ~s.macd_crossover /\ ~s.macd_crossunder
        /\ IsNaN(r.rsi) => ~s.rsi_rising /\ ~s.rsi_falling
        /\ (IsNaN(r.ema_short) \/ IsNaN(r.ema_long)) => ~s.ema_crossover /\ ~s.ema_crossunder
        /\ i = 1 => ~s.price_increasing /\ ~s.price_decreasing
        /\ IsNaN(r.rsi) => ~s.buy_signal /\ ~s.sell_signal

\* generate_signals has met a row whose rsi and macd are NaN while the EMAs
\* have crossed and the price has moved
C7_GatedRowWithoutRsi ==
  \E i \in Rows :
    /\ IsNaN(table[i].rsi) /\ IsNaN(table[i].macd)
    /\ signals[i].ema_crossover /\ signals[i].price_increasing

Flat == \A i \in 1..Len(closes) : closes[i] = closes[1]

\* C8: on a flat series of closes, at every index price_increasing,
\* price_decreasing, raw_buy_signal and raw_sell_signal are false, whatever
\* rsi_rising and rsi_falling are, and neither buy_signal nor sell_signal is true.
C8_FlatSeriesIsSilent ==
  Flat =>
    \A i \in Rows :
      LET s == signals[i]
      IN  /\ ~s.price_increasing /\ ~s.price_decreasing
          /\ ~s.raw_buy_signal /\ ~s.raw_sell_signal
          /\ ~s.buy_signal /\ ~s.sell_signal

\* generate_signals has processed a flat series long enough for every
\* indicator to have a value, and rsi_rising is true on it
C8_FlatSeriesWithRsi ==
  /\ Flat /\ stage = "signals" /\ Len(closes) = MaxLen
  /\ \E i \in Rows : signals[i].rsi_rising /\ ~IsNaN(table[i].signal)

StrictlyIncreasing == \A i \in 2..Len(closes) : closes[i] > closes[i - 1]

\* C9: on a strictly increasing series of closes, ema_crossover is true at
\* every index from the end of the warm-up of the long EMA on, and sell_signal
\* is false at every index (so at every index after any warm-up).
C9_RisingSeries ==
  StrictlyIncreasing =>
    \A i \in Rows :
      /\ i >= EmaLongWindow => signals[i].ema_crossover
      /\ ~signals[i].sell_signal

\* generate_signals has processed a strictly increasing series on which macd
\* has fallen below its signal line, past every warm-up
C9_RisingSeriesSlowingDown ==
  /\ StrictlyIncreasing /\ stage = "signals"
  /\ \E i \in Rows : signals[i].macd_crossunder /\ signals[i].ema_crossover

(***************************************************************************)
(* fetch_data_with_retry(symbol, timeframe, limit, retries, delay).        *)
(* The frame records what the call did: the attempt the loop is at, the    *)
(* calls of exchange.fetch_ohlcv, the arguments of time.sleep, and how it  *)
(* ended.  A window is what the exchange returned to one call.             *)
(***************************************************************************)
MaxWindows == 2
Windows == 1..MaxWindows

\* the defaults of retries and delay, which signals() relies on
DefaultRetries == 5
DefaultDelay == 5

Call(retries, delay) ==
  [retries |-> retries, delay |-> delay, attempt |-> 0, calls |-> 0,
   slept |-> <<>>, status |-> "running", result |-> None]

\* an iteration that sleeps after every failed attempt, the last included; C5
\* is expected to fail against it
fetch_attempt_always_sleeps(f, ok, w) ==
  IF ok
  THEN [f EXCEPT !.calls = @ + 1, !.status = "returned", !.result = Some(w)]
  ELSE [f EXCEPT !.calls = @ + 1, !.attempt = @ + 1,
                 !.slept = Append(@, f.delay * Pow(2, f.attempt)),
                 !.status = IF f.attempt < f.retries - 1 THEN "running" ELSE "raised"]

\* one iteration of the for loop: the try, and the except when the fetch fails
fetch_attempt(f, ok, w) ==
  IF ok
  THEN [f EXCEPT !.calls = @ + 1, !.status = "returned", !.result = Some(w)]
  ELSE IF f.attempt < f.retries - 1
  THEN [f EXCEPT !.calls = @ + 1, !.attempt = @ + 1,
                 !.slept = Append(@, f.delay * Pow(2, f.attempt))]
  ELSE [f EXCEPT !.calls = @ + 1, !.status = "raised"]

\* range(retries) is exhausted without an iteration returning or raising: the
\* function ends without a return statement, which returns None
fetch_fall_through(f) == [f EXCEPT !.status = "returned", !.result = None]

FetchStep ==
  /\ frame # None
  /\ frame[1].status = "running"
  /\ IF frame[1].attempt >= frame[1].retries
     THEN frame' = Some(fetch_fall_through(frame[1]))
     ELSE \E ok \in BOOLEAN, w \in Windows :
            frame' = Some(fetch_attempt(frame[1], ok, w))
  /\ UNCHANGED <<pc, running, df, gcf, plotFile, msg, photo, sent, cause, inflight>>
  /\ UNCHANGED <<rowVars, seriesVars>>

SeriesIdle ==
  closes = <<>> /\ table = <<>> /\ roll = None /\ signals = <<>> /\ stage = "idle"

MaxRetries == 5
MaxDelay == 3

InitFetch ==
  /\ pc = <<>> /\ running = None /\ df = <<>>
  /\ gcf = None /\ plotFile = None /\ msg = <<>> /\ photo = <<>> /\ sent = <<>>
  /\ cause = <<>> /\ inflight = {}
  /\ RowsIdle /\ SeriesIdle
  /\ \E retries \in 0..MaxRetries, delay \in 1..MaxDelay : frame = Some(Call(retries, delay))

NextFetch == FetchStep

SpecFetch == InitFetch /\ [][NextFetch]_vars

\* C5: with retries = R >= 1 the attempts are numbered 0..R-1 in order; the
\* call returns the series at the first attempt that succeeds and makes no
\* further attempt; it sleeps delay * 2^attempt after each failed attempt but
\* the last; after R failures it raises without sleeping; so at most R fetch
\* calls and at most R-1 sleeps.
C5_RetryWithBackoff ==
  /\ [](frame # None /\ frame[1].retries >= 1 =>
          LET f == frame[1]
              R == f.retries
          IN  /\ f.calls <= R /\ Len(f.slept) <= R - 1
              /\ \A i \in 1..Len(f.slept) : f.slept[i] = f.delay * Pow(2, i - 1)
              /\ f.status = "running" =>
                   f.attempt < R /\ f.calls = f.attempt /\ Len(f.slept) = f.attempt
              /\ f.status = "returned" =>
                   /\ f.result # None
                   /\ f.calls = f.attempt + 1 /\ Len(f.slept) = f.attempt
              /\ f.status = "raised" =>
                   f.attempt = R - 1 /\ f.calls = R /\ Len(f.slept) = R - 1)
  /\ [][frame # None /\ frame[1].status # "running" => frame' = frame]_vars

\* a call has returned the series after two failed attempts, with attempts to spare
C5_ReturnedAfterFailures ==
  /\ frame # None
  /\ frame[1].status = "returned" /\ frame[1].result # None
  /\ frame[1].calls = 3 /\ Len(frame[1].slept) = 2
  /\ frame[1].retries > 3

\* C10: for every retry count, 0 included, a call that returns returns a
\* series obtained from a successful fetch; otherwise it raises.
C10_ReturnsSeriesOrRaises ==
  frame # None /\ frame[1].status = "returned" =>
    frame[1].result # None /\ frame[1].calls >= 1

(***************************************************************************)
(* The /signals handler.  Invocations are coroutines on one event loop:    *)
(* the loop executes one of them until it awaits, so an invocation steps   *)
(* only while it is the running one, or when the loop is idle and resumes  *)
(* it.  The model lets the host dispatch an update while another           *)
(* invocation is suspended.                                                *)
(***************************************************************************)
MaxInvocations == 2
Invocations == 1..MaxInvocations

Turn(u) == running = Some(u) \/ running = None

InFlight(u) == pc[u] \notin {"idle", "done", "escaped"}

\* what signals() builds from its frame: the text of lines 137-140, and the
\* figure plot_signals draws from the frame it is given
Text(w) == [kind |-> "signals", window |-> w]
Chart(w) == [kind |-> "chart", window |-> w]
ErrorText(c) == [kind |-> "error", cause |-> c]

InitHandler ==
  /\ pc = [u \in Invocations |-> "idle"]
  /\ running = None
  /\ df = [u \in Invocations |-> None]
  /\ frame = None
  /\ gcf = None
  /\ plotFile = None
  /\ msg = [u \in Invocations |-> None]
  /\ photo = [u \in Invocations |-> None]
  /\ sent = [u \in Invocations |-> <<>>]
  /\ cause = [u \in Invocations |-> NoCause]
  /\ inflight = [together |-> {}, writers |-> {}]
  /\ RowsIdle /\ SeriesIdle

\* the dispatcher calls signals(update, context): line 129 calls the fetch
Dispatch(u) ==
  /\ pc[u] = "idle"
  /\ running = None
  /\ pc' = [pc EXCEPT ![u] = "fetch"]
  /\ running' = Some(u)
  /\ frame' = Some(Call(DefaultRetries, DefaultDelay))
  /\ inflight' = [inflight EXCEPT
                    !.together = @ \cup {{u, v} : v \in {x \in Invocations : InFlight(x)}}]
  /\ UNCHANGED <<df, gcf, plotFile, msg, photo, sent, cause>>
  /\ UNCHANGED <<rowVars, seriesVars>>

\* line 129 ends: the frame is assigned, or the exception reaches the except
\* clause; line 130 subscripts the result, which raises on None
FetchReturn(u) ==
  /\ pc[u] = "fetch"
  /\ running = Some(u)
  /\ frame # None
  /\ frame[1].status # "running"
  /\ IF frame[1].status = "raised"
     THEN /\ pc' = [pc EXCEPT ![u] = "except"]
          /\ cause' = [cause EXCEPT ![u] = "fetch"]
          /\ df' = df
     ELSE IF frame[1].result = None
     THEN /\ pc' = [pc EXCEPT ![u] = "except"]
          /\ cause' = [cause EXCEPT ![u] = "compute"]
          /\ df' = df
     ELSE /\ pc' = [pc EXCEPT ![u] = "compute"]
          /\ cause' = cause
          /\ df' = [df EXCEPT ![u] = frame[1].result]
  /\ frame' = None
  /\ UNCHANGED <<running, gcf, plotFile, msg, photo, sent, inflight>>
  /\ UNCHANGED <<rowVars, seriesVars>>

\* lines 130-142: the indicators, the signals and the text of the frame, then
\* await reply_text(signal_message) suspends the invocation
Compute(u) ==
  /\ pc[u] = "compute"
  /\ Turn(u)
  /\ msg' = [msg EXCEPT ![u] = Some(Text(df[u][1]))]
  /\ pc' = [pc EXCEPT ![u] = "await_text"]
  /\ running' = None
  /\ UNCHANGED <<df, frame, gcf, plotFile, photo, sent, cause, inflight>>
  /\ UNCHANGED <<rowVars, seriesVars>>

\* the reply of line 142 completes and the loop resumes the invocation: the
\* user has the text, or reply_text raised
TextDelivered(u) ==
  /\ pc[u] = "await_text"
  /\ running = None
  /\ running' = Some(u)
  /\ \E ok \in BOOLEAN :
       IF ok
       THEN /\ sent' = [sent EXCEPT ![u] = Append(@, msg[u][1])]
            /\ pc' = [pc EXCEPT ![u] = "plot"]
            /\ cause' = cause
       ELSE /\ sent' = sent
            /\ pc' = [pc EXCEPT ![u] = "except"]
            /\ cause' = [cause EXCEPT ![u] = "deliver"]
  /\ UNCHANGED <<df, frame, gcf, plotFile, msg, photo, inflight>>
  /\ UNCHANGED <<rowVars, seriesVars>>

\* plot_signals, lines 93-113: a new current figure drawn from the frame
PlotFigure(u) ==
  /\ pc[u] = "plot"
  /\ Turn(u)
  /\ gcf' = Some(Chart(df[u][1]))
  /\ pc' = [pc EXCEPT ![u] = "savefig"]
  /\ running' = Some(u)
  /\ inflight' = [inflight EXCEPT !.writers = @ \cup {u}]
  /\ UNCHANGED <<df, frame, plotFile, msg, photo, sent, cause>>
  /\ UNCHANGED <<rowVars, seriesVars>>

\* line 116: plt.savefig writes the current figure to 'signals_plot.png', or
\* raises; plot_signals is a plain function with no await, so the invocation
\* keeps the event loop
Savefig(u) ==
  /\ pc[u] = "savefig"
  /\ Turn(u)
  /\ \E ok \in BOOLEAN :
       IF ok
       THEN /\ plotFile' = gcf
            /\ pc' = [pc EXCEPT ![u] = "send"]
            /\ cause' = cause
       ELSE /\ plotFile' = plotFile
            /\ pc' = [pc EXCEPT ![u] = "except"]
            /\ cause' = [cause EXCEPT ![u] = "render"]
  /\ running' = Some(u)
  /\ UNCHANGED <<df, frame, gcf, msg, photo, sent, inflight>>
  /\ UNCHANGED <<rowVars, seriesVars>>

\* line 119: the file is opened and passed to reply_photo, whose coroutine is
\* created and dropped: nothing awaits it, so nothing is sent.  plot_signals
\* and the handler return.
Send(u) ==
  /\ pc[u] = "send"
  /\ Turn(u)
  /\ photo' = [photo EXCEPT ![u] = plotFile]
  /\ pc' = [pc EXCEPT ![u] = "done"]
  /\ running' = None
  /\ UNCHANGED <<df, frame, gcf, plotFile, msg, sent, cause, inflight>>
  /\ UNCHANGED <<rowVars, seriesVars>>

\* line 148: await reply_text("An error occurred: ...") suspends the invocation
Except(u) ==
  /\ pc[u] = "except"
  /\ Turn(u)
  /\ pc' = [pc EXCEPT ![u] = "await_error"]
  /\ running' = None
  /\ UNCHANGED <<df, frame, gcf, plotFile, msg, photo, sent, cause, inflight>>
  /\ UNCHANGED <<rowVars, seriesVars>>

\* the reply of line 148 completes: the user has the error text and the
\* handler returns, or reply_text raised inside the except clause and the
\* exception leaves the handler
ErrorDelivered(u) ==
  /\ pc[u] = "await_error"
  /\ running = None
  /\ \E ok \in BOOLEAN :
       IF ok
       THEN /\ sent' = [sent EXCEPT ![u] = Append(@, ErrorText(cause[u]))]
            /\ pc' = [pc EXCEPT ![u] = "done"]
       ELSE /\ sent' = sent
            /\ pc' = [pc EXCEPT ![u] = "escaped"]
  /\ UNCHANGED <<running, df, frame, gcf, plotFile, msg, photo, cause, inflight>>
  /\ UNCHANGED <<rowVars, seriesVars>>

Next ==
  \/ FetchStep
  \/ \E u \in Invocations :
       \/ Dispatch(u)
       \/ FetchReturn(u)
       \/ Compute(u)
       \/ TextDelivered(u)
       \/ PlotFigure(u)
       \/ Savefig(u)
       \/ Send(u)
       \/ Except(u)
       \/ ErrorDelivered(u)

Spec == InitHandler /\ [][Next]_vars

Succeeded(u) == pc[u] = "done" /\ cause[u] = NoCause

Delivered(u, m) == \E i \in 1..Len(sent[u]) : sent[u][i] = m

\* C3: an invocation in which the fetch, the computation and the rendering
\* succeed ends with both the text of the last rows and the chart rendered for
\* it delivered to the user.
C3_SuccessDeliversTextAndChart ==
  \A u \in Invocations :
    Succeeded(u) =>
      Delivered(u, Text(df[u][1])) /\ Delivered(u, Chart(df[u][1]))

\* C4: a failure of the fetch, of the rendering or of a delivery is caught by
\* the handler and reported to the user as a text message; it never leaves
\* the handler.
C4_FailuresCaughtAndReported ==
  \A u \in Invocations :
    /\ pc[u] # "escaped"
    /\ (pc[u] = "done" /\ cause[u] # NoCause) => Delivered(u, ErrorText(cause[u]))

\* C6: two invocations in flight together share no mutable state, and the
\* text and the chart each hands to the delivery layer are derived from the
\* window it fetched itself.
C6_NoSharedMutableState ==
  /\ \A u \in Invocations, v \in Invocations :
       (u # v /\ {u, v} \in inflight.together) => ~({u, v} \subseteq inflight.writers)
  /\ \A u \in Invocations :
       /\ msg[u] # None => msg[u] = Some(Text(df[u][1]))
       /\ photo[u] # None => photo[u] = Some(Chart(df[u][1]))

(***************************************************************************)
(* SpecRows: generate_signals applied to one row.  The row's indicators    *)
(* are drawn from small sets, with the NaN patterns calculate_indicators   *)
(* produces: an indicator is NaN during its warm-up, and the warm-ups end  *)
(* in the order ema_short, ema_long, rsi, macd, signal.                    *)
(***************************************************************************)
MaxLevel == 2
MaxMacd == 1

Levels == 1..MaxLevel
MacdLevels == (0 - MaxMacd)..MaxMacd
\* the ends of the RSI scale, its thresholds 40 and 60, and the values at
\* which the two scores can be equal
RsiGrid == {0, 100} \cup {5 * k : k \in 7..13}

\* a cell of the input row: None for NaN, Some(k) for the number k
Cell(c) == IF c = None THEN NaN ELSE Num(c[1])

\* the frame's row, as calculate_indicators leaves it (macd_diff is macd - signal)
RowOf(in) ==
  [close |-> Cell(in.close), prev |-> Cell(in.prev),
   macd |-> Cell(in.macd), signal |-> Cell(in.signal),
   macd_histogram |-> Sub(Cell(in.macd), Cell(in.signal)),
   rsi |-> Cell(in.rsi),
   ema_short |-> Cell(in.ema_short), ema_long |-> Cell(in.ema_long)]

\* warm counts the indicators that are past their warm-up at the row; only the
\* first row of a frame has no previous close
InitRows ==
  /\ HandlerIdle /\ SeriesIdle
  /\ sig = None
  /\ \E warm \in 0..5, first \in BOOLEAN, c \in Levels, p \in Levels,
        es \in Levels, el \in Levels, rsi \in RsiGrid,
        macd \in MacdLevels, signal \in MacdLevels :
       /\ first => warm = 0
       /\ row = [close |-> Some(c),
                 prev |-> IF first THEN None ELSE Some(p),
                 ema_short |-> IF warm >= 1 THEN Some(es) ELSE None,
                 ema_long |-> IF warm >= 2 THEN Some(el) ELSE None,
                 rsi |-> IF warm >= 3 THEN Some(rsi) ELSE None,
                 macd |-> IF warm >= 4 THEN Some(macd) ELSE None,
                 signal |-> IF warm >= 5 THEN Some(signal) ELSE None]

ApplyGenerateSignals ==
  /\ sig = None
  /\ sig' = Some(SignalRow(RowOf(row)))
  /\ UNCHANGED row
  /\ UNCHANGED <<handlerVars, seriesVars>>

NextRows == ApplyGenerateSignals

SpecRows == InitRows /\ [][NextRows]_vars

\* C1: generate_signals never makes buy_signal and sell_signal both true at
\* one index, also where both raw signals are true and where a score is NaN.
C1_NeverBuyAndSell ==
  sig # None => ~(sig[1].buy_signal /\ sig[1].sell_signal)

\* generate_signals has met a row where both raw signals are true
C1_BothRawSignals ==
  sig # None /\ sig[1].raw_buy_signal /\ sig[1].raw_sell_signal

====
